---- MODULE Spec2Model ----
(***************************************************************************)
(* Model of the journal reader of yskomur/jourlog (JournalReader): its     *)
(* cursor, limit and retrieved fields, and the sdjournal handle it drives  *)
(* (accumulated matches, read position).  Every exported method of the     *)
(* reader is one action; the store calls it makes are part of the action.  *)
(***************************************************************************)
EXTENDS Integers, Sequences, FiniteSets, TLC

\* ------------------------------------------------------------------ bounds
\* Number of entries the journal holds.
NumEntries == 3
\* Largest limit a caller passes to SetLimit.
MaxLimit == 2
\* Largest number of matches accumulated in the store before ClearFilters.
MaxMatches == 1
\* Largest number of Close calls made on one reader.
MaxCloses == 2
\* Largest number of matches accumulated when every filter call is in play.
MaxFilters == 2

\* ------------------------------------------------------------- input sets
\* Priorities callers pass to SetPriority: both edges of [0,7] and one value
\* outside it on each side.
PrioInputs == {-1, 0, 7, 8}
\* An entry: whether its field map has a MESSAGE key, and its PRIORITY.  The
\* journal holds emergency records, debug records, and debug records that
\* carry no MESSAGE field.
Entries == {[hasMsg |-> TRUE, prio |-> 0], [hasMsg |-> TRUE, prio |-> 7],
            [hasMsg |-> FALSE, prio |-> 7]}
Journals == [1..NumEntries -> Entries]
\* Values callers pass to the filters that take a name.
NameInputs == {"a", "b"}
\* An instant: whole seconds since the epoch and the nanoseconds within the
\* second, as time.Time holds it (the count of nanoseconds itself exceeds the
\* integers of the model).
\* Times callers pass to SetSince and SetUntil: below one microsecond, a whole
\* one, and between two.
TimeInputs == {[s |-> 0, ns |-> 999], [s |-> 0, ns |-> 1000], [s |-> 0, ns |-> 2500]}
\* Instants time.Now() returns to the time-window shortcuts: exactly one week
\* after the epoch, and later, at the last nanosecond of a second.
NowInputs == {[s |-> 604800, ns |-> 0], [s |-> 1000000, ns |-> 999999999]}
\* Offsets of the local zone from UTC, in seconds east.
ZoneInputs == {0, 7200, -18000}
\* The value every entry of the journal has in its name fields, and its
\* _REALTIME_TIMESTAMP: seconds and the microseconds within the second.
EntryName == "a"
EntryTime == [s |-> 0, us |-> 1]
\* The loggers: the global JLog and one made by NewJourlog.
Loggers == {"JLog", "NewJourlog"}
\* journal.PriEmerg .. journal.PriDebug, and journal.PriInfo among them.
Priorities == 0..7
PriInfo == 6
\* Levels callers pass to SetLogLevel: four priorities and one value below all.
LevelInputs == {-1, 0, 3, PriInfo, 7}
\* The logging methods, by priority.
Methods == <<"Emerge", "Alert", "Critical", "Error", "Warning", "Notice",
             "Info", "Debug">>
MethodsWithContext ==
    <<"EmergeWithContext", "AlertWithContext", "CriticalWithContext",
      "ErrorWithContext", "WarningWithContext", "NoticeWithContext",
      "InfoWithContext", "DebugWithContext">>
\* Faults the store can raise inside one reader call.
RetrieveFaults == {"none", "Next", "GetEntry", "GetCursor"}

VARIABLES
    journal,    \* the store's entries, in store order (never changed by the reader)
    matches,    \* store: the matches added since the last FlushMatches
    pos,        \* store: index of the entry the read pointer is at or has passed
    closes,     \* store: number of Close calls the handle has received
    cursor,     \* JournalReader.cursor
    limit,      \* JournalReader.limit
    retrieved,  \* JournalReader.retrieved
    last,       \* the last call: its name, its result and the store calls it made
    returned,   \* history: Retrieve calls that returned a message since the last reset
    failed,     \* history: a Retrieve call failed since the last reset
    phase,      \* history: progress of a run LimitReached, ResetCounter, SetLimit,
                \* Retrieve ("capped", "reset", "raised", then "continued" or
                \* "skipped"); of a run LimitReached or Exhausted, successful
                \* seek ("sought"), Retrieve right after a SeekHead
                \* ("reentered"); of a run ClearFilters
                \* that uncovers the next entry, Retrieve ("cleared", "unfiltered")
                \* or of a run Exhausted, such a ClearFilters, Retrieve
                \* ("reopened", "revived")
    capPos,     \* history: the store position at which that LimitReached was returned
    loggers,    \* JourLog.logLevel and JourLog.printLog of each logger
    out         \* the last logger call: its name, its result, and what it sent
                \* to journal.Send and printed

vars == <<journal, matches, pos, closes, cursor, limit, retrieved, last,
          returned, failed, phase, capPos, loggers, out>>
logging == <<loggers, out>>
history == <<returned, failed, phase, capPos>>
store == <<matches, pos>>
reader == <<cursor, limit, retrieved>>

\* ----------------------------------------------------------- error values
\* An error is the text of fmt.Errorf, kept as its pieces; NoError is nil.
NoError == <<>>
ErrLimit(l) == <<"reached limit of ", l, " entries">>
ErrNoMore == <<"no more entries">>
ErrNoMessage == <<"entry has no MESSAGE field">>
ErrNext == <<"failed to advance to next entry: ", "store">>
ErrGetEntry == <<"failed to get entry: ", "store">>
ErrGetCursor == <<"failed to get cursor: ", "store">>
ErrPriority(p) == <<"invalid priority level: ", p, " (must be 0-7)">>
ErrPriorityMatch == <<"failed to add priority match: ", "store">>
ErrService == <<"failed to add service match: ", "store">>
ErrUnit == <<"failed to add unit match: ", "store">>
ErrTime == <<"failed to add time match: ", "store">>
ErrFilter == <<"failed to add filter match: ", "store">>
ErrHostname == <<"failed to add hostname match: ", "store">>
ErrExecutable == <<"failed to add executable match: ", "store">>
ErrMessageFilter == <<"failed to add message filter: ", "store">>
ErrSeekHead == <<"failed to seek to head: ", "store">>
ErrSeekTail == <<"failed to seek to tail: ", "store">>
ErrSeekCursor == <<"failed to seek to cursor: ", "store">>

\* ------------------------------------------------------------ store model
\* A cursor token names one entry; the reader's cursor field starts as "".
EmptyCursor == <<>>
Token(i) == <<"cursor", i>>
\* Tokens callers pass to SeekCursor: one per entry, and one the store no
\* longer resolves.
StaleToken == Token(0)
TokenInputs == {Token(i) : i \in 1..NumEntries} \cup {StaleToken}
TokenIndex(t) == IF t[2] \in 1..NumEntries THEN t[2] ELSE 0

\* A match string: a field prefix followed by the formatted value.
Match(prefix, v) == [field |-> prefix, val |-> v]
\* Strings callers pass to AddFilter: one a filter call would build, and one
\* SetPriority would refuse to build.
RawInputs == {Match("_HOSTNAME=", "a"), Match("PRIORITY<=", 8)}
\* Order of two timestamps in microseconds.
NotBefore(a, b) == a.s > b.s \/ (a.s = b.s /\ a.us >= b.us)
\* The store ANDs all matches: "PRIORITY<=n" admits priority n or more severe,
\* the timestamp matches admit the times on their side of the bound, any
\* other match admits the entries whose field has that value.
Admits(m, e) ==
    CASE m.field = "PRIORITY<=" -> e.prio <= m.val
      [] m.field = "_REALTIME_TIMESTAMP>=" -> NotBefore(EntryTime, m.val)
      [] m.field = "_REALTIME_TIMESTAMP<=" -> NotBefore(m.val, EntryTime)
      [] OTHER -> m.val = EntryName
\* Variant of AddMatch for a store that drops a match it already holds.
SubmittedOnce(ms, m) ==
    IF \E k \in 1..Len(ms) : ms[k] = m THEN ms ELSE Append(ms, m)
\* AddMatch(): the match joins the ones the store holds.
Submitted(ms, m) == Append(ms, m)
MatchesAll(ms, e) == \A k \in 1..Len(ms) : Admits(ms[k], e)
\* Variant of NextIndex for a store that ignores the matches.
NextIndexAny(jr, p, ms) == IF p < NumEntries THEN p + 1 ELSE 0
\* Next(): the first entry after p that the matches admit, 0 when there is none.
NextIndex(jr, p, ms) ==
    LET cand == {i \in (p + 1)..NumEntries : MatchesAll(ms, jr[i])}
    IN IF cand = {} THEN 0 ELSE CHOOSE i \in cand : \A k \in cand : i <= k
\* GetCursor(): the token of the entry the read pointer is on.
StoreCursor(p) == Token(p)

\* ------------------------------------------------------------ reader code
\* Variants of the reader code below, each changed the way a slip in the code
\* would change it; the claims are checked to tell them from the code.
CapReachedExact(l, r) == l > 0 /\ r = l
CapReachedOffByOne(l, r) == l > 0 /\ r > l
CapturedNoCount(c, r, tok) == [cursor |-> tok, retrieved |-> r]
CapturedNoCursor(c, r, tok) == [cursor |-> c, retrieved |-> r + 1]
ValidPriorityNoLowerBound(p) == p <= 7
SeekRetrievedKept(err, r) == r
SeekRetrievedAlways(err, r) == 0
ClampLimitNone(n) == n
AtEndNever(n) == FALSE
HasMessageAlways(e) == TRUE

AdmittedStrictly(level, p) == level > p
LandedRetried(i, p) == IF i = 0 THEN p ELSE IF i < NumEntries THEN i + 1 ELSE i
KeptButCounted(c, r) == [cursor |-> c, retrieved |-> r + 1]
CapReachedNever(l, r) == FALSE

\* Emerge .. DebugWithContext: the threshold test made before anything is sent.
Admitted(level, p) == level >= p
\* What a logger call did: the value it was given and the one it returned, the
\* priorities of the records it passed to journal.Send, and the lines it
\* printed on the console.
LogCall(op, l, arg, result, sent, printed) ==
    [op |-> op, logger |-> l, arg |-> arg, result |-> result, sent |-> sent,
     printed |-> printed]
\* SetLimit: a negative limit is stored as 0.
ClampLimit(n) == IF n < 0 THEN 0 ELSE n
\* Retrieve: the cap check made before the store is touched.
CapReached(l, r) == l > 0 /\ r >= l
\* SetSince, SetUntil: UnixNano() / 1000, the microseconds the match carries.
Micros(t) == [s |-> t.s, us |-> t.ns \div 1000]
\* time.Hour, in seconds.
Hour == 3600
\* time.Now().Add(-d) for a duration of d whole seconds.
Before(now, d) == [s |-> now.s - d, ns |-> now.ns]
\* time.Date(year, month, day, 0, 0, 0, 0, location): the start of the local
\* day of now, in a zone that keeps one offset through that day.
Midnight(now, zone) == [s |-> now.s - ((now.s + zone) % (24 * Hour)), ns |-> 0]
\* Retrieve: Next advanced over n = 0 entries.
AtEnd(n) == n = 0
\* Retrieve: where its one Next call leaves the read pointer, on entry i or,
\* when it found none (i = 0), where it was.
Landed(i, p) == IF i = 0 THEN p ELSE i
\* Retrieve: the fields as a return on a GetEntry or GetCursor error leaves them.
Kept(c, r) == [cursor |-> c, retrieved |-> r]
\* Retrieve: the entry's field map has a MESSAGE key.
HasMessage(e) == e.hasMsg
\* Retrieve: the fields assigned once Next, GetEntry and GetCursor succeeded.
Captured(c, r, tok) == [cursor |-> tok, retrieved |-> r + 1]
\* SetPriority: the range check and the match it builds.
ValidPriority(p) == ~(p < 0 \/ p > 7)
PriorityMatch(p) == [field |-> "PRIORITY<=", val |-> p]
\* Seek*: retrieved after the store call returned err.
SeekRetrieved(err, r) == IF err # NoError THEN r ELSE 0

\* The record of a call: its name and argument, the error and message it
\* returned, the number of Next and AddMatch calls it made on the store, and
\* for a Retrieve whether no Retrieve had failed before it since the last reset.
Call(op, arg, err, msg, nexts, adds) ==
    [op |-> op, arg |-> arg, err |-> err, msg |-> msg, nextCalls |-> nexts,
     addCalls |-> adds, clean |-> (op = "Retrieve" => ~failed)]

Init ==
    /\ journal \in Journals
    /\ matches = <<>>
    /\ pos = 0
    /\ closes = 0
    /\ cursor = EmptyCursor
    /\ limit = 0
    /\ retrieved = 0
    /\ returned = 0
    /\ failed = FALSE
    /\ phase = "idle"
    /\ capPos = 0
    /\ last = Call("NewJournalReader", 0, NoError, 0, 0, 0)
    /\ loggers = [l \in Loggers |-> [logLevel |-> PriInfo, printLog |-> FALSE]]
    /\ out = LogCall("NewJourlog", "NewJourlog", 0, 0, <<>>, <<>>)

\* History of a call that is no part of a LimitReached/ResetCounter/SetLimit run.
Idle == phase' = "idle" /\ capPos' = 0

SetLimit ==
    \E n \in -1..MaxLimit :
        /\ limit' = ClampLimit(n)
        /\ last' = Call("SetLimit", n, NoError, 0, 0, 0)
        /\ IF phase = "reset" /\ n > 0
           THEN phase' = "raised" /\ UNCHANGED capPos
           ELSE Idle
        /\ UNCHANGED <<journal, closes, logging, store, cursor, retrieved, returned, failed>>

SetPriority ==
    \E p \in PrioInputs, reject \in BOOLEAN :
        /\ Len(matches) < MaxMatches
        \* the store can only refuse a match that is submitted
        /\ reject => ValidPriority(p)
        /\ IF ~ValidPriority(p)
           THEN /\ last' = Call("SetPriority", p, ErrPriority(p), 0, 0, 0)
                /\ UNCHANGED matches
           ELSE IF reject
           THEN /\ last' = Call("SetPriority", p, ErrPriorityMatch, 0, 0, 1)
                /\ UNCHANGED matches
           ELSE /\ last' = Call("SetPriority", p, NoError, 0, 0, 1)
                /\ matches' = Submitted(matches, PriorityMatch(p))
        /\ Idle
        /\ UNCHANGED <<journal, closes, logging, pos, reader, returned, failed>>

\* Variant of AddMatch that submits a refused match a second time.
AddMatchRetries(op, arg, m, err) ==
    \E reject \in BOOLEAN :
        /\ Len(matches) < MaxFilters
        /\ IF reject
           THEN /\ last' = Call(op, arg, err, 0, 0, 2)
                /\ UNCHANGED matches
           ELSE /\ last' = Call(op, arg, NoError, 0, 0, 1)
                /\ matches' = Submitted(matches, m)
        /\ Idle
        /\ UNCHANGED <<journal, closes, logging, pos, reader, returned, failed>>

\* The part the filters other than SetPriority share: one match is built and
\* submitted, and a refusal of the store is wrapped in err.
AddMatch(op, arg, m, err) ==
    \E reject \in BOOLEAN :
        /\ Len(matches) < MaxFilters
        /\ IF reject
           THEN /\ last' = Call(op, arg, err, 0, 0, 1)
                /\ UNCHANGED matches
           ELSE /\ last' = Call(op, arg, NoError, 0, 0, 1)
                /\ matches' = Submitted(matches, m)
        /\ Idle
        /\ UNCHANGED <<journal, closes, logging, pos, reader, returned, failed>>

SetService ==
    \E s \in NameInputs :
        AddMatch("SetService", s, Match("__SYSTEMD_SERVICE=", s), ErrService)

SetUnit ==
    \E s \in NameInputs :
        AddMatch("SetUnit", s, Match("_SYSTEMD_UNIT=", s), ErrUnit)

\* The body of SetSince, run for the call op.
Since(op, arg, t) ==
    AddMatch(op, arg, Match("_REALTIME_TIMESTAMP>=", Micros(t)), ErrTime)

SetSince ==
    \E t \in TimeInputs : Since("SetSince", t, t)

LastHour ==
    \E now \in NowInputs : Since("LastHour", now, Before(now, Hour))

LastDay ==
    \E now \in NowInputs : Since("LastDay", now, Before(now, 24 * Hour))

\* Variant of LastWeek that goes back one day.
LastWeekOneDay ==
    \E now \in NowInputs : Since("LastWeek", now, Before(now, 24 * Hour))

LastWeek ==
    \E now \in NowInputs : Since("LastWeek", now, Before(now, 7 * 24 * Hour))

Today ==
    \E now \in NowInputs, zone \in ZoneInputs :
        Since("Today", [now |-> now, zone |-> zone], Midnight(now, zone))

SetUntil ==
    \E t \in TimeInputs :
        AddMatch("SetUntil", t, Match("_REALTIME_TIMESTAMP<=", Micros(t)), ErrTime)

AddFilter ==
    \E f \in RawInputs : AddMatch("AddFilter", f, f, ErrFilter)

SetHostname ==
    \E s \in NameInputs :
        AddMatch("SetHostname", s, Match("_HOSTNAME=", s), ErrHostname)

SetExecutable ==
    \E s \in NameInputs :
        AddMatch("SetExecutable", s, Match("_EXE=", s), ErrExecutable)

SetMessageFilter ==
    \E s \in NameInputs :
        AddMatch("SetMessageFilter", s, Match("MESSAGE=", s), ErrMessageFilter)

\* History of a ClearFilters: whether it uncovers the next entry, and whether
\* it does so right after an Exhausted.
Cleared ==
    /\ phase' = IF NextIndex(journal, pos, matches) = NextIndex(journal, pos, <<>>)
                THEN "idle"
                ELSE IF last.op = "Retrieve" /\ last.err = ErrNoMore
                THEN "reopened"
                ELSE "cleared"
    /\ capPos' = 0

\* Variant of ClearFilters that leaves the matches in the store.
ClearFiltersKeeps ==
    /\ last' = Call("ClearFilters", 0, NoError, 0, 0, 0)
    /\ Cleared
    /\ UNCHANGED <<journal, closes, logging, matches, pos, reader, returned, failed>>

\* Variant of ClearFilters that also restarts the count.
ClearFiltersResets ==
    /\ matches' = <<>>
    /\ retrieved' = 0
    /\ last' = Call("ClearFilters", 0, NoError, 0, 0, 0)
    /\ Cleared
    /\ UNCHANGED <<journal, closes, logging, pos, cursor, limit, returned, failed>>

ClearFilters ==
    /\ matches' = <<>>
    /\ last' = Call("ClearFilters", 0, NoError, 0, 0, 0)
    /\ Cleared
    /\ UNCHANGED <<journal, closes, logging, pos, reader, returned, failed>>

\* History of a Retrieve that failed without a LimitReached.
Failed ==
    /\ failed' = TRUE
    /\ IF phase \in {"raised", "skipped"}
       THEN phase' = "skipped" /\ UNCHANGED capPos
       ELSE Idle
    /\ UNCHANGED returned

\* History of a Retrieve that returned a message.
Returned ==
    /\ returned' = returned + 1
    /\ phase' = CASE phase = "raised" -> "continued"
                  [] phase = "cleared" -> "unfiltered"
                  [] phase = "sought" /\ last.op = "SeekHead" -> "reentered"
                  [] phase = "reopened" -> "revived"
                  [] OTHER -> "idle"
    /\ capPos' = IF phase = "raised" THEN capPos ELSE 0
    /\ UNCHANGED failed

Retrieve ==
    \E fault \in RetrieveFaults :
        LET i == NextIndex(journal, pos, matches)
            \* Next returns n and leaves the read pointer on entry at
            n == IF i = 0 THEN 0 ELSE 1
            at == Landed(i, pos)
            kept == Kept(cursor, retrieved)
            got == Captured(cursor, retrieved, StoreCursor(at))
        IN  /\ UNCHANGED <<journal, closes, logging, matches, limit>>
            \* a store call can only fail when it is made
            /\ CapReached(limit, retrieved) => fault = "none"
            /\ AtEnd(n) => fault \in {"none", "Next"}
            /\ IF CapReached(limit, retrieved)
               THEN /\ last' = Call("Retrieve", 0, ErrLimit(limit), 0, 0, 0)
                    /\ failed' = TRUE
                    /\ phase' = "capped"
                    /\ capPos' = pos
                    /\ UNCHANGED <<pos, cursor, retrieved, returned>>
               ELSE IF fault = "Next"
               THEN /\ last' = Call("Retrieve", 0, ErrNext, 0, 1, 0)
                    /\ Failed
                    /\ UNCHANGED <<pos, cursor, retrieved>>
               ELSE IF AtEnd(n)
               THEN /\ last' = Call("Retrieve", 0, ErrNoMore, 0, 1, 0)
                    /\ Failed
                    /\ UNCHANGED <<pos, cursor, retrieved>>
               ELSE /\ pos' = at
                    /\ IF fault = "GetEntry" \/ at = 0
                       THEN /\ last' = Call("Retrieve", 0, ErrGetEntry, 0, 1, 0)
                            /\ Failed
                            /\ cursor' = kept.cursor
                            /\ retrieved' = kept.retrieved
                       ELSE IF fault = "GetCursor"
                       THEN /\ last' = Call("Retrieve", 0, ErrGetCursor, 0, 1, 0)
                            /\ Failed
                            /\ cursor' = kept.cursor
                            /\ retrieved' = kept.retrieved
                       ELSE /\ cursor' = got.cursor
                            /\ retrieved' = got.retrieved
                            /\ IF ~HasMessage(journal[at])
                               THEN /\ last' = Call("Retrieve", 0, ErrNoMessage, 0, 1, 0)
                                    /\ Failed
                               ELSE /\ last' = Call("Retrieve", 0, NoError, at, 1, 0)
                                    /\ Returned

\* Variant of ResetCounter that also forgets the cursor.
ResetCounterForgets ==
    /\ retrieved' = 0
    /\ cursor' = EmptyCursor
    /\ returned' = 0
    /\ failed' = FALSE
    /\ last' = Call("ResetCounter", 0, NoError, 0, 0, 0)
    /\ IF phase = "capped"
       THEN phase' = "reset" /\ UNCHANGED capPos
       ELSE Idle
    /\ UNCHANGED <<journal, closes, logging, store, limit>>

\* Variant of ResetCounter that also rewinds the store to the head.
ResetCounterRewinds ==
    /\ retrieved' = 0
    /\ pos' = 0
    /\ returned' = 0
    /\ failed' = FALSE
    /\ last' = Call("ResetCounter", 0, NoError, 0, 0, 0)
    /\ IF phase = "capped"
       THEN phase' = "reset" /\ UNCHANGED capPos
       ELSE Idle
    /\ UNCHANGED <<journal, closes, logging, matches, cursor, limit>>

ResetCounter ==
    /\ retrieved' = 0
    /\ returned' = 0
    /\ failed' = FALSE
    /\ last' = Call("ResetCounter", 0, NoError, 0, 0, 0)
    /\ IF phase = "capped"
       THEN phase' = "reset" /\ UNCHANGED capPos
       ELSE Idle
    /\ UNCHANGED <<journal, closes, logging, store, cursor, limit>>

\* The part the three seeks share: the store call returned err, and on
\* success moved the read pointer so that the following Next searches after p.
Seek(op, arg, err, p) ==
    /\ retrieved' = SeekRetrieved(err, retrieved)
    /\ IF err # NoError
       THEN /\ Idle
            /\ UNCHANGED <<pos, returned, failed>>
       ELSE /\ pos' = p
            /\ returned' = 0
            /\ failed' = FALSE
            /\ phase' = IF last.op = "Retrieve" /\ last.err \in {ErrLimit(limit), ErrNoMore}
                        THEN "sought" ELSE "idle"
            /\ capPos' = 0
    /\ last' = Call(op, arg, err, 0, 0, 0)
    /\ UNCHANGED <<journal, closes, logging, matches, cursor, limit>>

\* Variant of SeekHead that leaves the store where it is.
SeekHeadStays ==
    \E ioError \in BOOLEAN :
        Seek("SeekHead", 0, IF ioError THEN ErrSeekHead ELSE NoError, pos)

SeekHead ==
    \E ioError \in BOOLEAN :
        Seek("SeekHead", 0, IF ioError THEN ErrSeekHead ELSE NoError, 0)

SeekTail ==
    \E ioError \in BOOLEAN :
        Seek("SeekTail", 0, IF ioError THEN ErrSeekTail ELSE NoError, NumEntries)

\* After a seek to a cursor the following Next lands on the entry it names.
SeekCursor ==
    \E t \in TokenInputs :
        Seek("SeekCursor", t, IF TokenIndex(t) = 0 THEN ErrSeekCursor ELSE NoError,
             TokenIndex(t) - 1)

Next ==
    \/ SetLimit
    \/ SetPriority
    \/ ClearFilters
    \/ Retrieve
    \/ ResetCounter
    \/ SeekHead
    \/ SeekTail
    \/ SeekCursor

Spec == Init /\ [][Next]_vars

\* Close: j.j is set once by NewJournalReader and never cleared, so every call
\* reaches the store's Close, which returns nil.
Close ==
    /\ closes < MaxCloses
    /\ closes' = closes + 1
    /\ last' = Call("Close", 0, NoError, 0, 0, 0)
    /\ UNCHANGED <<journal, logging, store, reader, history>>

\* The life of a reader up to and including its Close calls; what the store
\* does with a handle that was closed is not modelled, so the other methods
\* are called on an open handle only.
NextClose ==
    \/ closes = 0 /\ Next
    \/ Close

SpecClose == Init /\ [][NextClose]_vars

\* Variant of GetCursor that returns the reader's cursor field.
GetCursorField ==
    \E ioError \in BOOLEAN :
        /\ last' = IF ioError
                   THEN Call("GetCursor", 0, ErrGetCursor, EmptyCursor, 0, 0)
                   ELSE Call("GetCursor", 0, NoError, cursor, 0, 0)
        /\ UNCHANGED <<journal, closes, logging, store, reader, history>>

\* GetCursor: the store's token, or "" with the wrapped store error; the
\* reader's own cursor field is neither read nor written.
GetCursor ==
    \E ioError \in BOOLEAN :
        /\ last' = IF ioError
                   THEN Call("GetCursor", 0, ErrGetCursor, EmptyCursor, 0, 0)
                   ELSE Call("GetCursor", 0, NoError, StoreCursor(pos), 0, 0)
        /\ UNCHANGED <<journal, closes, logging, store, reader, history>>

\* A caller that keeps the limit it set for as long as a count runs: SetLimit
\* is called only right after the reader is made, the counter is reset or a
\* seek succeeds, before the next Retrieve.
Fresh == returned = 0 /\ ~failed
NextFixed ==
    \/ Fresh /\ SetLimit
    \/ SetPriority
    \/ ClearFilters
    \/ Retrieve
    \/ ResetCounter
    \/ SeekHead
    \/ SeekTail
    \/ SeekCursor
    \/ GetCursor

SpecFixed == Init /\ [][NextFixed]_vars

\* ----------------------------------------------------------------- logger
SetEcho ==
    \E l \in Loggers, state \in BOOLEAN :
        /\ loggers' = [loggers EXCEPT ![l].printLog = state]
        /\ out' = LogCall("SetEcho", l, state, 0, <<>>, <<>>)
        /\ UNCHANGED <<journal, closes, store, reader, history, last>>

\* Variant of SetLogLevel that also turns the echo off.
SetLogLevelQuiet ==
    \E l \in Loggers, level \in LevelInputs :
        /\ loggers' = [loggers EXCEPT ![l] = [logLevel |-> level, printLog |-> FALSE]]
        /\ out' = LogCall("SetLogLevel", l, level, 0, <<>>, <<>>)
        /\ UNCHANGED <<journal, closes, store, reader, history, last>>

SetLogLevel ==
    \E l \in Loggers, level \in LevelInputs :
        /\ loggers' = [loggers EXCEPT ![l].logLevel = level]
        /\ out' = LogCall("SetLogLevel", l, level, 0, <<>>, <<>>)
        /\ UNCHANGED <<journal, closes, store, reader, history, last>>

GetLogLevel ==
    \E l \in Loggers :
        /\ out' = LogCall("GetLogLevel", l, 0, loggers[l].logLevel, <<>>, <<>>)
        /\ UNCHANGED <<journal, closes, store, reader, history, last, loggers>>

GetEcho ==
    \E l \in Loggers :
        /\ out' = LogCall("GetEcho", l, 0, loggers[l].printLog, <<>>, <<>>)
        /\ UNCHANGED <<journal, closes, store, reader, history, last, loggers>>

\* The sixteen logging methods: the method of priority p, plain or
\* WithContext, calls journalLogger or journalLoggerWithContext when the
\* level admits p; that makes one journal.Send call, whose failure is only
\* reported on the console, and prints the record when printLog is set.
Emit ==
    \E l \in Loggers, p \in Priorities, withContext \in BOOLEAN,
       sendFails \in BOOLEAN :
        LET op == IF withContext THEN MethodsWithContext[p + 1]
                  ELSE Methods[p + 1]
            report == IF sendFails THEN <<"Failed to log to journal: ">> ELSE <<>>
            echo == IF loggers[l].printLog THEN <<"record">> ELSE <<>>
        IN  \* journal.Send can only fail when it is called
            /\ sendFails => Admitted(loggers[l].logLevel, p)
            /\ out' = IF Admitted(loggers[l].logLevel, p)
                       THEN LogCall(op, l, p, 0, <<p>>, report \o echo)
                       ELSE LogCall(op, l, p, 0, <<>>, <<>>)
            /\ UNCHANGED <<journal, closes, store, reader, history, last, loggers>>

NextLogger ==
    \/ SetEcho
    \/ SetLogLevel
    \/ GetLogLevel
    \/ GetEcho
    \/ Emit

\* The loggers do not touch the reader: one journal is enough.
InitLogger == Init /\ \A i \in 1..NumEntries : journal[i] = [hasMsg |-> TRUE, prio |-> 7]
SpecLogger == InitLogger /\ [][NextLogger]_vars

\* A caller that configures a reader in use: every filter call, the
\* time-window shortcuts and ClearFilters, on a reader that has retrieved the
\* first k entries of a journal of debug records.
InitFilters ==
    \E k \in 0..NumEntries :
        /\ journal = [i \in 1..NumEntries |-> [hasMsg |-> TRUE, prio |-> 7]]
        /\ matches = <<>>
        /\ pos = k
        /\ closes = 0
        /\ cursor = IF k = 0 THEN EmptyCursor ELSE StoreCursor(k)
        /\ limit = 0
        /\ retrieved = k
        /\ returned = k
        /\ failed = FALSE
        /\ phase = "idle"
        /\ capPos = 0
        /\ last = IF k = 0 THEN Call("NewJournalReader", 0, NoError, 0, 0, 0)
                  ELSE Call("Retrieve", 0, NoError, k, 1, 0)
        /\ loggers = [l \in Loggers |-> [logLevel |-> PriInfo, printLog |-> FALSE]]
        /\ out = LogCall("NewJourlog", "NewJourlog", 0, 0, <<>>, <<>>)
NextFilters ==
    \/ SetService
    \/ SetUnit
    \/ SetSince
    \/ SetUntil
    \/ SetPriority
    \/ AddFilter
    \/ SetHostname
    \/ SetExecutable
    \/ SetMessageFilter
    \/ LastHour
    \/ LastDay
    \/ LastWeek
    \/ Today
    \/ ClearFilters

SpecFilters == InitFilters /\ [][NextFilters]_vars

\* The loop of the README: the caller sets the limit and the filters, then
\* calls Retrieve until it returns an error; after an Exhausted the caller may
\* change the limit and the filters and call Retrieve again.
InLoop == last.op = "Retrieve" /\ last.err = NoError
Settable == last.op # "Retrieve" \/ last.err = ErrNoMore
LoopNext ==
    \/ Retrieve
    \/ Settable /\ (SetLimit \/ SetPriority \/ ClearFilters)

SpecLoop == Init /\ [][LoopNext]_vars /\ WF_vars(Retrieve)

\* ================================================================= claims
SeekOps == {"SeekHead", "SeekTail", "SeekCursor"}

\* C1: with a limit n > 0, once exactly n Retrieve calls have returned a message
\* since the counter was last reset and no Retrieve call has failed in between,
\* the next Retrieve fails with LimitReached, makes no Next call, leaves the
\* store position where it was, and retrieved is n.
CapDiscipline ==
    [][(last'.op = "Retrieve" /\ limit > 0 /\ returned = limit /\ ~failed)
        => /\ last'.err = ErrLimit(limit)
           /\ last'.nextCalls = 0
           /\ pos' = pos
           /\ retrieved' = limit]_vars
\* The (n+1)th call after n = MaxLimit clean successes was refused.
CapDisciplineWitness ==
    /\ last.op = "Retrieve" /\ last.clean
    /\ last.err = ErrLimit(limit)
    /\ limit = MaxLimit /\ returned = limit /\ retrieved = limit

\* C2: retrieved equals the number of Retrieve calls that returned a message
\* since the last reset (a failing Retrieve does not increment it).
RetrievedCountsReturned == retrieved = returned

\* C3: a Retrieve that fails with MalformedEntry leaves the cursor field as it
\* was before the call.
MalformedKeepsCursor ==
    [][(last'.op = "Retrieve" /\ last'.err = ErrNoMessage) => cursor' = cursor]_vars

\* C4: whenever limit > 0 and retrieved >= limit, Retrieve returns LimitReached
\* with the limit in its text, whether or not a matching entry is left;
\* Exhausted is a different error, returned only when the cap check passed and
\* the one Next call found no entry.
LimitBeforeExhausted ==
    [][last'.op = "Retrieve"
        => /\ (limit > 0 /\ retrieved >= limit) => last'.err = ErrLimit(limit)
           /\ last'.err = ErrNoMore
                => /\ ~(limit > 0 /\ retrieved >= limit)
                   /\ last'.nextCalls = 1
                   /\ NextIndex(journal, pos, matches) = 0
           /\ ErrLimit(limit) # ErrNoMore]_vars
\* LimitReached was returned although the store holds a further matching entry.
LimitBeforeExhaustedWitness ==
    /\ last.op = "Retrieve"
    /\ last.err = ErrLimit(limit)
    /\ NextIndex(journal, pos, matches) # 0

\* C5: a successful SeekHead, SeekTail or SeekCursor sets retrieved to 0 and
\* leaves limit unchanged.
SeekResetsCount ==
    [][(last'.op \in SeekOps /\ last'.err = NoError)
        => retrieved' = 0 /\ limit' = limit]_vars
\* A seek succeeded right after Retrieve had returned LimitReached.
SeekResetsCountWitness ==
    /\ last.op \in SeekOps /\ last.err = NoError
    /\ phase = "sought" /\ limit > 0 /\ retrieved = 0

\* C6: a seek the store rejects returns an error and leaves retrieved, limit
\* and the cursor field as they were.
FailedSeekKeepsState ==
    [][(last'.op \in SeekOps /\ last'.err # NoError)
        => retrieved' = retrieved /\ limit' = limit /\ cursor' = cursor]_vars
\* SeekCursor with the stale token was rejected on a reader that has retrieved.
FailedSeekKeepsStateWitness ==
    /\ last.op = "SeekCursor" /\ last.arg = StaleToken
    /\ last.err = ErrSeekCursor
    /\ retrieved > 0 /\ limit > 0 /\ cursor # EmptyCursor

\* C7 as stated: after LimitReached, ResetCounter and SetLimit(n > 0), the first
\* message Retrieve returns is that of the first matching entry after the last
\* entry retrieved before the cap was hit (here an entry that has a message).
ResumeReturnsNextEntry ==
    [][(phase \in {"raised", "skipped"} /\ capPos > 0 /\ journal[capPos].hasMsg
            /\ last'.op = "Retrieve" /\ last'.err = NoError)
        => last'.msg = NextIndex(journal, capPos, matches)]_vars
\* C7 amended: after LimitReached, ResetCounter and SetLimit(n > 0) the store
\* position is still the one at which the cap was hit, the next Retrieve is
\* not refused by the cap, and a message it returns is that of the first
\* matching entry after that position.
ResumeContinues ==
    [][/\ phase' \in {"reset", "raised"} => pos' = capPos'
       /\ (phase = "raised" /\ last'.op = "Retrieve")
            => /\ last'.err # ErrLimit(limit)
               /\ last'.err = NoError
                    => /\ last'.msg = NextIndex(journal, capPos, matches)
                       /\ pos' = last'.msg]_vars
\* The Retrieve after the raise returned an entry beyond the first one.
ResumeContinuesWitness ==
    /\ phase = "continued"
    /\ last.op = "Retrieve" /\ last.err = NoError
    /\ capPos > 0 /\ last.msg > capPos

\* C8: after a successful Retrieve the cursor field is the token the store's
\* GetCursor returns at that point.
CursorIsStoreCursor ==
    (last.op = "Retrieve" /\ last.err = NoError) => cursor = StoreCursor(pos)
CursorIsStoreCursorWitness ==
    /\ last.op = "Retrieve" /\ last.err = NoError
    /\ pos > 1 /\ cursor = StoreCursor(pos)

\* C9 as stated: in every reachable state, limit > 0 implies retrieved <= limit.
CountWithinLimit == limit > 0 => retrieved <= limit
\* C9 amended: every call other than SetLimit keeps (limit > 0 => retrieved <=
\* limit), SetLimit(n) keeps it when n <= 0 or n >= retrieved, and a Retrieve
\* made when limit > 0 and retrieved >= limit does not change retrieved.
CountWithinLimitKept ==
    [][/\ ((limit > 0 => retrieved <= limit)
            /\ (last'.op = "SetLimit" => last'.arg <= 0 \/ last'.arg >= retrieved))
          => (limit' > 0 => retrieved' <= limit')
       /\ (last'.op = "Retrieve" /\ limit > 0 /\ retrieved >= limit)
          => retrieved' = retrieved]_vars
\* A Retrieve took retrieved up to a positive limit.
CountWithinLimitKeptWitness ==
    /\ last.op = "Retrieve" /\ last.err = NoError
    /\ limit > 0 /\ retrieved = limit

\* C10: SetPriority(p) with p outside 0..7 returns the validation error, makes
\* no AddMatch call and leaves the match set; with p in 0..7 it makes exactly
\* one AddMatch call, of "PRIORITY<=p", and succeeds when the store accepts it.
PriorityValidated ==
    [][last'.op = "SetPriority"
        => LET p == last'.arg
           IN  /\ (p < 0 \/ p > 7)
                    => /\ last'.err = ErrPriority(p)
                       /\ last'.addCalls = 0
                       /\ matches' = matches
               /\ (0 <= p /\ p <= 7)
                    => /\ last'.addCalls = 1
                       /\ \/ /\ last'.err = NoError
                             /\ matches' = Append(matches,
                                    [field |-> "PRIORITY<=", val |-> p])
                          \/ /\ last'.err = ErrPriorityMatch
                             /\ matches' = matches]_vars
\* SetPriority(8) was refused with the validation error.
PriorityValidatedWitness ==
    /\ last.op = "SetPriority" /\ last.arg = 8
    /\ last.err = ErrPriority(8) /\ last.addCalls = 0

\* C11: over any sequence of calls that contains Close calls, the store's Close
\* is invoked exactly once (a second Close on the reader does not reach it).
ReleasedOnce == last.op = "Close" => closes = 1

\* C12: ClearFilters empties the store's match set and leaves cursor, limit,
\* retrieved and the store position unchanged.
ClearFiltersFrame ==
    [][last'.op = "ClearFilters"
        => /\ matches' = <<>>
           /\ cursor' = cursor /\ limit' = limit /\ retrieved' = retrieved
           /\ pos' = pos]_vars
\* ClearFilters removed a match that hid the next entry, on a reader that has
\* retrieved under a limit.
ClearFiltersFrameWitness ==
    /\ last.op = "ClearFilters" /\ phase = "cleared" /\ matches = <<>>
    /\ retrieved > 0 /\ limit > 0 /\ cursor # EmptyCursor /\ pos > 0

\* C13: the Retrieve that follows ClearFilters acts as on an unfiltered reader
\* at the same position: when it reaches the store and Next succeeds, it moves
\* to the entry right after the position, whatever the earlier matches
\* admitted, and a message it returns is that entry's.
UnfilteredAfterClear ==
    [][(last.op = "ClearFilters" /\ last'.op = "Retrieve"
            /\ last'.err \notin {ErrLimit(limit), ErrNext})
        => /\ last'.nextCalls = 1
           /\ IF pos < NumEntries
              THEN /\ pos' = pos + 1
                   /\ last'.err # ErrNoMore
                   /\ last'.err = NoError => last'.msg = pos + 1
              ELSE last'.err = ErrNoMore /\ pos' = pos]_vars
\* The Retrieve after ClearFilters returned an entry the cleared matches hid.
UnfilteredAfterClearWitness ==
    /\ phase = "unfiltered"
    /\ last.op = "Retrieve" /\ last.err = NoError
    /\ journal[last.msg].prio = 7

\* C14: SetLimit never fails and stores its argument, a negative one as 0, so
\* limit >= 0; it leaves retrieved, cursor and the store position unchanged;
\* with limit 0 no Retrieve is refused by the cap.
SetLimitClamps ==
    [][/\ last'.op = "SetLimit"
            => /\ last'.err = NoError
               /\ limit' = (IF last'.arg < 0 THEN 0 ELSE last'.arg)
               /\ limit' >= 0
               /\ retrieved' = retrieved /\ cursor' = cursor /\ pos' = pos
       /\ (last'.op = "Retrieve" /\ limit = 0)
            => last'.err # ErrLimit(0)]_vars
\* SetLimit was given a negative limit after entries were retrieved.
SetLimitClampsWitness ==
    /\ last.op = "SetLimit" /\ last.arg < 0 /\ limit = 0
    /\ retrieved > 0 /\ cursor # EmptyCursor

\* C15: ResetCounter sets retrieved to 0 and leaves the store position, the
\* cursor, the limit and the filters unchanged.
ResetCounterFrame ==
    [][last'.op = "ResetCounter"
        => /\ retrieved' = 0
           /\ pos' = pos /\ cursor' = cursor /\ limit' = limit
           /\ matches' = matches]_vars
\* ResetCounter was called on a capped reader that holds a filter.
ResetCounterFrameWitness ==
    /\ last.op = "ResetCounter" /\ phase = "reset" /\ retrieved = 0
    /\ pos > 0 /\ cursor # EmptyCursor /\ limit > 0 /\ matches # <<>>

StoreErrors == {ErrNext, ErrGetEntry, ErrGetCursor}
\* The matching entries after the read position.
Ahead == {k \in (pos + 1)..NumEntries : MatchesAll(matches, journal[k])}

\* C16 as stated, for the calls the store serves without an error: with no cap
\* and a matching entry left, Retrieve succeeds.
RetrieveAllSucceed ==
    [][(last'.op = "Retrieve" /\ limit = 0 /\ Ahead # {}
            /\ last'.err \notin StoreErrors)
        => last'.err = NoError]_vars
\* C16: a successful Retrieve returns the message of a matching entry after
\* the read position and passes over no matching entry, so successive
\* successful calls return matching entries in store order, each at most once
\* and none skipped; with no cap, matching entries left that all have a
\* MESSAGE field, and no store error, Retrieve succeeds and adds 1 to
\* retrieved.
RetrieveInOrder ==
    [][last'.op = "Retrieve"
        => /\ last'.err = NoError
                => /\ last'.msg \in Ahead
                   /\ \A k \in Ahead : last'.msg <= k
                   /\ journal[last'.msg].hasMsg
                   /\ pos' = last'.msg
                   /\ (last.op = "Retrieve" /\ last.err = NoError)
                        => last.msg = pos
           /\ (/\ limit = 0 /\ Ahead # {}
               /\ \A k \in Ahead : journal[k].hasMsg
               /\ last'.err \notin StoreErrors)
                => /\ last'.err = NoError
                   /\ retrieved' = retrieved + 1]_vars
\* Two Retrieve calls in a row succeeded under a filter that hides the entry
\* between the two they returned.
RetrieveInOrderWitness ==
    /\ last.op = "Retrieve" /\ last.err = NoError /\ last.msg = 3
    /\ returned = 2 /\ retrieved = 2 /\ ~failed /\ limit = 0
    /\ matches # <<>> /\ ~MatchesAll(matches, journal[2])

\* C17 as stated, for the calls in which the store's Next does not fail: a
\* Retrieve after an Exhausted, with no seek in between, returns Exhausted.
ExhaustedStays ==
    [][(/\ (last.op = "Retrieve" /\ last.err = ErrNoMore) \/ phase = "reopened"
        /\ last'.op = "Retrieve" /\ last'.err \notin StoreErrors)
        => last'.err = ErrNoMore]_vars
\* C17: Retrieve makes at most one Next call and never waits, and the loop
\* that calls Retrieve until it returns an error ends. A Retrieve returns
\* Exhausted exactly when no matching entry is left after the read position,
\* the cap is not reached and Next does not fail; it then leaves position and
\* matches as they are; only a seek or a filter change alters what is left
\* and only SetLimit the limit, so the Retrieve right after an Exhausted
\* returns Exhausted again, or the error of a failing Next.
LoopEnds ==
    /\ InLoop ~> (last.op = "Retrieve" /\ last.err # NoError)
    /\ [][/\ last'.op = "Retrieve"
                => /\ last'.nextCalls <= 1
                   /\ last'.err = ErrNoMore
                        => Ahead = {} /\ pos' = pos /\ matches' = matches
                   /\ (/\ Ahead = {} /\ ~CapReached(limit, retrieved)
                       /\ last'.err # ErrNext)
                        => last'.err = ErrNoMore
                   /\ (last.op = "Retrieve" /\ last.err = ErrNoMore)
                        => last'.err \in {ErrNoMore, ErrNext}
          /\ <<pos', matches'>> # <<pos, matches>>
                => last'.op \in SeekOps \cup {"Retrieve", "SetPriority",
                                              "ClearFilters"}
          /\ limit' # limit => last'.op = "SetLimit"
          /\ retrieved' > retrieved => last'.op = "Retrieve"]_vars
\* The loop returned every entry of the store and then ended with Exhausted.
LoopEndsWitness ==
    /\ last.op = "Retrieve" /\ last.err = ErrNoMore
    /\ returned = NumEntries /\ pos = NumEntries /\ limit = 0

Stopped == last.op = "Retrieve" /\ last.err \in {ErrLimit(limit), ErrNoMore}

\* C19 as stated, for the calls the store serves without an error: on a reader
\* stopped by LimitReached or Exhausted, the Retrieve after a successful
\* SeekHead returns the first matching entry of
\* the store when there is one.
SeekHeadReturnsFirst ==
    [][(/\ last.op = "SeekHead" /\ last.err = NoError /\ phase = "sought"
        /\ last'.op = "Retrieve" /\ Ahead # {}
        /\ last'.err \notin StoreErrors)
        => /\ last'.err = NoError
           /\ \A k \in Ahead : last'.msg <= k]_vars
\* C19: a reader stopped by LimitReached or Exhausted accepts each of the
\* three seeks, and a seek that succeeds sets retrieved to 0. After a
\* successful SeekHead the store is at the head and the next Retrieve is not
\* refused by the cap; a message it returns is that of the first matching
\* entry of the store, and when such an entry exists and has a MESSAGE and the
\* store reports no error, it does return it.
SeekReenters ==
    /\ [](Stopped => \A o \in SeekOps :
            ENABLED (Next /\ last'.op = o /\ last'.err = NoError
                        /\ retrieved' = 0))
    /\ [][/\ (last'.op \in SeekOps /\ last'.err = NoError) => retrieved' = 0
          /\ (last.op = "SeekHead" /\ last.err = NoError)
                => /\ pos = 0
                   /\ last'.op = "Retrieve"
                        => /\ last'.err # ErrLimit(limit)
                           /\ last'.err = NoError
                                => /\ last'.msg \in Ahead
                                   /\ \A k \in Ahead : last'.msg <= k
                           /\ (/\ Ahead # {}
                               /\ \A k \in Ahead :
                                    (\A h \in Ahead : k <= h) => journal[k].hasMsg
                               /\ last'.err \notin StoreErrors)
                                => last'.err = NoError]_vars
\* A capped reader was sent to the head and its next Retrieve returned the
\* first matching entry, which is not the first entry of the store.
SeekReentersWitness ==
    /\ phase = "reentered" /\ last.op = "Retrieve" /\ last.err = NoError
    /\ limit > 0 /\ retrieved = 1
    /\ last.msg = 2 /\ ~MatchesAll(matches, journal[1])

\* The time-window shortcuts, which are calls of SetSince.
Shortcuts == {"LastHour", "LastDay", "LastWeek", "Today"}
FilterOps == {"SetService", "SetUnit", "SetSince", "SetUntil", "SetPriority",
              "AddFilter", "SetHostname", "SetExecutable", "SetMessageFilter"}
\* The field prefix each filter puts before its value.
Prefix(op) ==
    CASE op = "SetService" -> "__SYSTEMD_SERVICE="
      [] op = "SetUnit" -> "_SYSTEMD_UNIT="
      [] op \in {"SetSince"} \cup Shortcuts -> "_REALTIME_TIMESTAMP>="
      [] op = "SetUntil" -> "_REALTIME_TIMESTAMP<="
      [] op = "SetPriority" -> "PRIORITY<="
      [] op = "SetHostname" -> "_HOSTNAME="
      [] op = "SetExecutable" -> "_EXE="
      [] op = "SetMessageFilter" -> "MESSAGE="

\* C20: a filter call that succeeds makes one AddMatch submission, and the
\* store then holds the matches it held, in their order, followed by the one
\* built from the call's argument, whether or not it repeats or contradicts
\* an earlier one; a filter call that fails leaves the matches as they are;
\* only ClearFilters removes matches, and it removes all of them.
FiltersAccumulate ==
    [][/\ (last'.op \in FilterOps \cup Shortcuts /\ last'.err = NoError)
            => /\ last'.addCalls = 1
               /\ Len(matches') = Len(matches) + 1
               /\ SubSeq(matches', 1, Len(matches)) = matches
               /\ last'.op = "AddFilter"
                    => matches'[Len(matches')] = last'.arg
               /\ last'.op \in {"SetSince", "SetUntil"}
                    => /\ matches'[Len(matches')].field = Prefix(last'.op)
                       /\ matches'[Len(matches')].val.s = last'.arg.s
                       /\ matches'[Len(matches')].val.us * 1000 <= last'.arg.ns
                       /\ last'.arg.ns < (matches'[Len(matches')].val.us + 1) * 1000
               /\ last'.op \in Shortcuts
                    => matches'[Len(matches')].field = Prefix(last'.op)
               /\ last'.op \in FilterOps \ {"AddFilter", "SetSince", "SetUntil"}
                    => matches'[Len(matches')]
                        = [field |-> Prefix(last'.op), val |-> last'.arg]
       /\ (last'.op \in FilterOps \cup Shortcuts /\ last'.err # NoError)
            => matches' = matches /\ last'.addCalls <= 1
       /\ last'.op = "ClearFilters" => matches' = <<>>
       /\ last'.op \notin FilterOps \cup Shortcuts \cup {"ClearFilters"}
            => matches' = matches]_vars
\* The same filter call succeeded twice in a row and the store holds its
\* match twice.
FiltersAccumulateWitness ==
    /\ last.op \in FilterOps /\ last.err = NoError
    /\ Len(matches) = 2 /\ matches[1] = matches[2]

GetCursorReads ==
    [][last'.op = "GetCursor"
        => /\ cursor' = cursor /\ retrieved' = retrieved /\ limit' = limit
           /\ pos' = pos /\ matches' = matches
           /\ last'.err = NoError => last'.msg = Token(pos)
           /\ last'.err # NoError
                => last'.err = ErrGetCursor /\ last'.msg = EmptyCursor]_vars
\* GetCursor was called after entries were retrieved and the store was sent
\* back to the head: its token is not the one in the cursor field.
GetCursorReadsWitness ==
    /\ last.op = "GetCursor" /\ last.err = NoError
    /\ pos = 0 /\ retrieved = 0 /\ returned = 0
    /\ cursor = Token(2) /\ last.msg # cursor

Defaults == [logLevel |-> 6, printLog |-> FALSE]
\* C23: the logger made by NewJourlog and the global JLog start with level
\* Info and echo off; SetLogLevel and SetEcho store their argument in the
\* logger they are called on and change nothing else; GetLogLevel and GetEcho
\* return what is stored, so a getter called right after the setter of the
\* same logger returns the setter's argument.
LoggerSettings ==
    /\ \A l \in Loggers : loggers[l] = Defaults
    /\ [][/\ out'.op = "SetLogLevel"
                => loggers' = [loggers EXCEPT ![out'.logger].logLevel = out'.arg]
          /\ out'.op = "SetEcho"
                => loggers' = [loggers EXCEPT ![out'.logger].printLog = out'.arg]
          /\ out'.op = "GetLogLevel"
                => /\ loggers' = loggers
                   /\ out'.result = loggers[out'.logger].logLevel
                   /\ (out.op = "SetLogLevel" /\ out.logger = out'.logger)
                        => out'.result = out.arg
          /\ out'.op = "GetEcho"
                => /\ loggers' = loggers
                   /\ out'.result = loggers[out'.logger].printLog
                   /\ (out.op = "SetEcho" /\ out.logger = out'.logger)
                        => out'.result = out.arg]_vars
\* The new logger's echo was turned on and its level set to Debug, the global
\* logger was left alone, and GetLogLevel returned Debug.
LoggerSettingsWitness ==
    /\ out.op = "GetLogLevel" /\ out.logger = "NewJourlog" /\ out.result = 7
    /\ loggers["NewJourlog"].printLog
    /\ loggers["JLog"] = Defaults

LoggerSets == {"SetLogLevel", "SetEcho", "GetLogLevel", "GetEcho", "NewJourlog"}
\* C24: the logging method of priority p passes one record of priority p to
\* journal.Send when p <= logLevel and nothing otherwise; what it does not
\* send it does not print either, and what it sends it prints exactly when
\* the echo is on; no logging call changes a setting. At level Info, that
\* sends priorities 0 to 6 and drops Debug.
ThresholdAdmits ==
    [][out'.op \notin LoggerSets
        => LET level == loggers[out'.logger].logLevel
               p == out'.arg
           IN  /\ loggers' = loggers
               /\ out'.op \in {Methods[p + 1], MethodsWithContext[p + 1]}
               /\ p <= level => out'.sent = <<p>>
               /\ p > level => out'.sent = <<>> /\ out'.printed = <<>>
               /\ level = 6 => (out'.sent # <<>> <=> p \in 0..6)
               /\ (\E k \in 1..Len(out'.printed) : out'.printed[k] = "record")
                    <=> (p <= level /\ loggers[out'.logger].printLog)]_vars
\* A logger at the default level with the echo on dropped a Debug record.
ThresholdAdmitsWitness ==
    /\ out.op = "DebugWithContext" /\ out.sent = <<>> /\ out.printed = <<>>
    /\ loggers[out.logger] = [logLevel |-> 6, printLog |-> TRUE]

\* The errors that wrap a refusal of the store's AddMatch.
Rejections == {ErrService, ErrUnit, ErrTime, ErrPriorityMatch, ErrFilter,
               ErrHostname, ErrExecutable, ErrMessageFilter}

\* C25: a filter call leaves cursor, limit, retrieved and the store position
\* unchanged whether it succeeds or fails; one that the store rejects has
\* submitted its match once, returns the wrapped error and leaves the matches
\* the store holds as they are.
RejectedFilterFrame ==
    [][last'.op \in FilterOps \cup Shortcuts
        => /\ cursor' = cursor /\ limit' = limit /\ retrieved' = retrieved
           /\ pos' = pos
           /\ last'.err # NoError
                => /\ matches' = matches
                   /\ last'.err \in Rejections => last'.addCalls = 1
                   /\ last'.err \notin Rejections
                        => /\ last'.op = "SetPriority"
                           /\ last'.err = ErrPriority(last'.arg)
                           /\ last'.addCalls = 0]_vars
\* The store rejected a SetService on a reader that has retrieved entries and
\* holds an accepted match.
RejectedFilterFrameWitness ==
    /\ last.op = "SetService" /\ last.err = ErrService /\ last.addCalls = 1
    /\ retrieved > 0 /\ cursor # EmptyCursor /\ pos > 0 /\ matches # <<>>

\* C26: a Retrieve makes at most one Next call; it leaves the store where it
\* was or on the first matching entry after that, one entry further when no
\* match is set; it makes no Next call when it returns LimitReached and does
\* not move the store when it returns LimitReached or Exhausted.
SingleAdvance ==
    [][last'.op = "Retrieve"
        => /\ last'.nextCalls <= 1
           /\ pos' = pos \/ (pos' \in Ahead /\ \A k \in Ahead : pos' <= k)
           /\ matches = <<>> => pos' <= pos + 1
           /\ last'.nextCalls = 0 => pos' = pos
           /\ last'.err = ErrLimit(limit) => last'.nextCalls = 0 /\ pos' = pos
           /\ last'.err = ErrNoMore => last'.nextCalls = 1 /\ pos' = pos]_vars
\* Retrieve returned Exhausted under a filter with entries left after the
\* position, and the store stayed where it was.
SingleAdvanceWitness ==
    /\ last.op = "Retrieve" /\ last.err = ErrNoMore /\ last.nextCalls = 1
    /\ pos = 1 /\ matches # <<>> /\ retrieved = 1

\* C27: a Retrieve that returns LimitReached, Exhausted or the error of the
\* store's Next, GetEntry or GetCursor leaves retrieved and the cursor field
\* unchanged; with LimitReached, Exhausted or a Next error the store has not
\* moved, with a GetEntry or GetCursor error it is on the first matching
\* entry after the old position, after one Next call.
FailureKeepsCount ==
    [][(last'.op = "Retrieve"
            /\ last'.err \in {ErrLimit(limit), ErrNoMore} \cup StoreErrors)
        => /\ retrieved' = retrieved /\ cursor' = cursor
           /\ last'.err \in {ErrLimit(limit), ErrNoMore, ErrNext} => pos' = pos
           /\ last'.err \in {ErrGetEntry, ErrGetCursor}
                => /\ last'.nextCalls = 1
                   /\ pos' \in Ahead /\ \A k \in Ahead : pos' <= k]_vars
\* After one entry was retrieved the store's GetCursor failed on the next:
\* the store is on entry 2, the cursor field and the count are those of entry 1.
FailureKeepsCountWitness ==
    /\ last.op = "Retrieve" /\ last.err = ErrGetCursor
    /\ pos = 2 /\ retrieved = 1 /\ cursor = Token(1)

\* C28: for a caller that changes the limit only when a count starts, the
\* number of Retrieve calls that returned a message since the counter was last
\* reset (ResetCounter or a successful seek) never exceeds a limit n > 0.
CapBoundsReturned == limit > 0 => returned <= limit
\* The cap of the largest limit was used up by successes, with a failed
\* Retrieve, a filter call and a GetCursor call among the calls.
CapBoundsReturnedWitness ==
    /\ limit = MaxLimit /\ returned = limit /\ failed
    /\ matches # <<>> /\ last.op = "GetCursor"

====
